---- MODULE Spec2Model ----
(***************************************************************************)
(* A state-machine model of the outline post-processing pipeline of the    *)
(* 3D product configurator:                                                *)
(*   - SelectedProductHighlighter (hover / selection layer bookkeeping),   *)
(*   - AnimatedTextureBlurOutlinePass (render, setSize, setOptions,        *)
(*     setColors, setOutputMode),                                          *)
(*   - ColorBlurOutlinePass (render, setSize).                             *)
(***************************************************************************)
EXTENDS Integers, Naturals, Sequences, FiniteSets, TLC

(***************************************************************************)
(* Bounds of the model.                                                    *)
(***************************************************************************)
\* Number of selectable scene objects.
NumObjects == 3
Objects == 1..NumObjects
\* "undefined" for an object reference.
NoObject == 0

\* three.js Layers channels: 0 = default, 1 = hover, 2 = selected.
DefaultLayer == 0
HoverLayer == 1
SelectedLayer == 2

\* The events of ProductConfiguratorService that SelectedProductHighlighter
\* subscribes to.
HighlighterEvents ==
  {"object3DPointerEnter", "object3DPointerLeave", "object3DSelected", "object3DDeselected"}

\* Widths and heights of the canvas range over 0..MaxDim.
MaxDim == 4
Dims == 0..MaxDim
Resolutions == Dims \X Dims

\* Colours are 24-bit hex values.
MaskClearColor == 0
White == 16777215
HostClearColors == {MaskClearColor, White}
HostClearAlphas == {0, 1}

\* Frame times, in seconds, fed to render().
DeltaTimes == {0, 15, 30}

\* fedTime while the frame clock is off.
NotFed == -1

\* The frame times of a scrolling outline, in seconds, and the time the frame
\* clock runs for.
ScrollDeltaTimes == {10, 20, 30}
MaxFedTime == 120

\* The clears and draws of one Active render(): 3 for the mask, 4 for each
\* blur, the composite and the copy to the display.
DrawsPerRender == 13

\* Textures the pass creates over its life, and outline materials it creates.
MaxTextures == 4
MaxMaterials == 3

\* An <img> element whose file failed to load or decode: it has no pixel data
\* and its natural dimensions are 0.
BrokenImage ==
  [type |-> "HTMLImageElement", nodeName |-> "img", name |-> "broken",
   naturalWidth |-> 0, naturalHeight |-> 0]

\* The images the host supplies to setColors: two of the same dimensions and
\* one of different dimensions.
Images ==
  { [type |-> "HTMLCanvasElement", nodeName |-> "canvas", name |-> "rainbow",
     width |-> 2, height |-> 1],
    [type |-> "HTMLCanvasElement", nodeName |-> "canvas", name |-> "snow",
     width |-> 1, height |-> 1],
    [type |-> "HTMLImageElement", nodeName |-> "img", name |-> "logo",
     naturalWidth |-> 1, naturalHeight |-> 1] }
\* texture.image of a Texture that has no image.
NoImage == [type |-> "undefined"]

\* The render targets the host supplies to setColors.
HostRenderTargets == { [type |-> "WebGLRenderTarget", id |-> i] : i \in 1..2 }

TextureKeys == {"hoverTexture", "selectedTexture"}

isRenderTarget(x) == x.type = "WebGLRenderTarget"
isTexture(x) == x.type = "Texture"

\* An options object with no key, and the options objects with at most the
\* key given.
NoOptions == [key \in {} |-> 0]
OptionalKey(key, values) == {NoOptions} \cup { key :> v : v \in values }

\* The colours objects given to setColors: every source for the hover channel,
\* an image and a render target for the selected channel, either channel
\* absent or both.
ColorInputs ==
  { a @@ b :
      a \in OptionalKey("hover", Images \cup HostRenderTargets),
      b \in OptionalKey("selected",
                        {src \in Images \cup HostRenderTargets :
                           src.type = "HTMLImageElement" \/ (isRenderTarget(src) /\ src.id = 1)}) }

\* The colours objects given to setColors when images may fail to load: for
\* the hover channel two loaded images of different dimensions, the broken
\* image and a render target, for the selected channel a loaded image and the
\* broken one, either channel absent or both.
DecodeInputs ==
  { a @@ b :
      a \in OptionalKey("hover",
                        {src \in Images : src.name \in {"rainbow", "logo"}}
                          \cup {BrokenImage}
                          \cup {rt \in HostRenderTargets : rt.id = 1}),
      b \in OptionalKey("selected",
                        {src \in Images : src.name = "logo"} \cup {BrokenImage}) }

\* The options objects given to the constructor and to setOptions for the
\* edges: edgeThickness and edgeGlow, either absent or both.
EdgeOptions ==
  { a @@ b : a \in OptionalKey("edgeThickness", {1, 3}),
             b \in OptionalKey("edgeGlow", {2, 4}) }

\* The resolutions the passes are constructed for.
BuildResolutions == {<<MaxDim, MaxDim>>, <<MaxDim - 1, 1>>}

\* The options objects given to setOptions while the textures change.
TextureOptions == OptionalKey("tileCount", {2})

\* The options objects given to setOptions to drive the animation.
AnimationOptions ==
  { a @@ b @@ c @@ d :
      a \in OptionalKey("startU", {1}),
      b \in OptionalKey("tileCount", {2}),
      c \in OptionalKey("animateOutline", BOOLEAN),
      d \in OptionalKey("animationInterval", {30000, 60000}) }
OutputModes == {"Normal", "MaskOnly"}

VARIABLES
  related,         \* userData.related of every object (set by the host scene)
  layers,          \* object.layers of every object: the set of enabled channels
  hoveredObject,   \* SelectedProductHighlighter.hoveredObject
  selectedObject,  \* SelectedProductHighlighter.selectedObject
  subscriptions,   \* the events whose subscription of SelectedProductHighlighter is open
  renderer,        \* WebGLRenderer: autoClear, clear colour/alpha, render target, stencil test
  cameraLayers,    \* camera.layers: the set of enabled channels
  overrideMaterial,\* scene.overrideMaterial
  tempOldClearColor, \* AnimatedTextureBlurOutlinePass.tempOldClearColor
  options,         \* edgeThickness, edgeGlow, startU, tileCount, animateOutline, interval
  elapsed,         \* AnimatedTextureBlurOutlinePass.elapsed (seconds)
  outlineUniforms, \* uniforms of the current outlineMaterial
  targets,         \* width and height of the five render targets
  texSize,         \* texSize uniforms of blurMaterial and blurHalfMaterial
  textureFields,   \* the hoverTexture and selectedTexture fields of the pass
  textureImages,   \* .image of every Texture the pass has created
  outlineMaterial, \* the current outlineMaterial: its identity and output mode
  disposeCalls,    \* dispose() calls received by every outline material created
  colorTargets,    \* width and height of the render targets of ColorBlurOutlinePass
  colorTexSize,    \* texSize uniforms of the blur materials of ColorBlurOutlinePass
  kernelRadius,    \* kernelRadius uniforms of blurMaterial and blurHalfMaterial
  construction,    \* CopyShader as imported, how each constructor ended, console.error calls
  fedTime,         \* deltaTime given to render() since the frame clock was started
  log,             \* the clears and draws issued by the last render() call
  ev               \* the handler that ran last, with its arguments

highlighterVars == <<related, layers, hoveredObject, selectedObject, subscriptions>>
rendererVars == <<renderer, cameraLayers, overrideMaterial, tempOldClearColor, log>>
animationVars == <<options, elapsed, outlineUniforms>>
sizeVars == <<targets, texSize, colorTargets, colorTexSize>>
textureVars == <<textureFields, textureImages, outlineMaterial, disposeCalls>>
buildVars == <<kernelRadius, construction>>
vars == <<related, layers, hoveredObject, selectedObject, subscriptions, renderer, cameraLayers,
          overrideMaterial, tempOldClearColor, options, elapsed, outlineUniforms,
          targets, texSize, colorTargets, colorTexSize, textureFields, textureImages,
          outlineMaterial, disposeCalls, kernelRadius, construction, fedTime, log, ev>>

\* A scene: the related list of every object (never the object itself), an
\* absent list being the empty list.
Scenes == { r \in [Objects -> SUBSET Objects] : \A o \in Objects : o \notin r[o] }

\* The scene r with its objects renamed by the permutation pi.
Renamed(r, pi) == [o \in Objects |-> {q \in Objects : pi[q] \in r[pi[o]]}]

\* A number that identifies a scene: one binary digit per ordered pair of
\* objects.
RECURSIVE SceneCodeOf(_, _)
SceneCodeOf(r, pairs) ==
  IF pairs = {} THEN 0
  ELSE LET pr == CHOOSE x \in pairs : TRUE
       IN (IF pr[2] \in r[pr[1]] THEN 2 ^ ((pr[1] - 1) * NumObjects + (pr[2] - 1)) ELSE 0)
          + SceneCodeOf(r, pairs \ {pr})

SceneCode(r) == SceneCodeOf(r, Objects \X Objects)

\* Every shape userData.related can take.  The handlers treat all objects
\* alike, so of the scenes that differ only by a renaming of the objects one
\* is kept: the one with the largest code.
RelatedConfigs ==
  { r \in Scenes : \A pi \in Permutations(Objects) : SceneCode(Renamed(r, pi)) <= SceneCode(r) }

(***************************************************************************)
(* SelectedProductHighlighter                                              *)
(***************************************************************************)

\* [a, ...(a.userData.related ?? [])]
allOf(a) == {a} \cup related[a]

\* Mutation: only direct membership in the other's related list counts.
areObjectOrRelatedEqualDirect(a, b) ==
  a = b \/ b \in related[a] \/ a \in related[b]

areObjectOrRelatedEqual(a, b) ==
  IF a = b THEN TRUE
  ELSE \E x \in allOf(a) : \E y \in allOf(b) : y = x

enableLayer(L, object, channel) ==
  [o \in Objects |->
     IF o = object \/ o \in related[object] THEN L[o] \cup {channel} ELSE L[o]]

\* Mutation: the siblings are left alone.
disableLayerObjectOnly(L, object, channel) ==
  [o \in Objects |-> IF o = object THEN L[o] \ {channel} ELSE L[o]]

disableLayer(L, object, channel) ==
  [o \in Objects |->
     IF o = object \/ o \in related[object] THEN L[o] \ {channel} ELSE L[o]]

\* Mutation: the selection is not consulted.
setHoverMaterialUnguarded(L, sel, object) == enableLayer(L, object, HoverLayer)

\* sel is this.selectedObject at the time of the call.
setHoverMaterial(L, sel, object) ==
  IF sel # NoObject /\ areObjectOrRelatedEqual(object, sel)
  THEN L
  ELSE enableLayer(L, object, HoverLayer)

\* Mutation: layer 1 is taken from the object alone.
clearHoverMaterialObjectOnly(L, object) ==
  [o \in Objects |-> IF o = object THEN L[o] \ {HoverLayer} ELSE L[o]]

clearHoverMaterial(L, object) == disableLayer(L, object, HoverLayer)

\* Mutation: the hover layer survives the selection.
setSelectedMaterialKeepHover(L, hov, object) == enableLayer(L, object, SelectedLayer)

\* hov is this.hoveredObject at the time of the call.
setSelectedMaterial(L, hov, object) ==
  LET L1 == enableLayer(L, object, SelectedLayer) IN
  IF hov # NoObject /\ areObjectOrRelatedEqual(object, hov)
  THEN clearHoverMaterial(L1, hov)
  ELSE L1

clearSelectedMaterial(L, hov, sel, object) ==
  LET L1 == disableLayer(L, object, SelectedLayer) IN
  IF hov # NoObject /\ areObjectOrRelatedEqual(object, hov)
  THEN setHoverMaterial(L1, sel, hov)
  ELSE L1

isAnyProductHighlighted == hoveredObject # NoObject \/ selectedObject # NoObject

\* The layers after the object3DSelected handler: the previous selection is
\* cleared while this.selectedObject still names it.
layersAfterSelect(object) ==
  LET L1 == IF selectedObject # NoObject
            THEN clearSelectedMaterial(layers, hoveredObject, selectedObject, selectedObject)
            ELSE layers
  IN setSelectedMaterial(L1, hoveredObject, object)

object3DPointerEnter(object) ==
  /\ hoveredObject' = object
  /\ layers' = setHoverMaterial(layers, selectedObject, object)
  /\ ev' = [op |-> "enter", obj |-> object]
  /\ UNCHANGED <<related, selectedObject, subscriptions, rendererVars, animationVars, sizeVars, textureVars, buildVars, fedTime>>

object3DPointerLeave(object) ==
  /\ hoveredObject' = NoObject
  /\ layers' = clearHoverMaterial(layers, object)
  /\ ev' = [op |-> "leave", obj |-> object]
  /\ UNCHANGED <<related, selectedObject, subscriptions, rendererVars, animationVars, sizeVars, textureVars, buildVars, fedTime>>

object3DSelected(object) ==
  /\ selectedObject' = object
  /\ layers' = layersAfterSelect(object)
  /\ ev' = [op |-> "select", obj |-> object]
  /\ UNCHANGED <<related, hoveredObject, subscriptions, rendererVars, animationVars, sizeVars, textureVars, buildVars, fedTime>>

object3DDeselected(object) ==
  /\ selectedObject' = NoObject
  /\ layers' = clearSelectedMaterial(layers, hoveredObject, NoObject, object)
  /\ ev' = [op |-> "deselect", obj |-> object]
  /\ UNCHANGED <<related, hoveredObject, subscriptions, rendererVars, animationVars, sizeVars, textureVars, buildVars, fedTime>>

\* Mutation: the pointer subscriptions are cancelled, the selection ones stay
\* open.
unsubscribedPointerOnly(subs) == subs \ {"object3DPointerEnter", "object3DPointerLeave"}

\* this.subscriptions.forEach(subscription => subscription.unsubscribe())
unsubscribed(subs) == {}

dispose ==
  /\ subscriptions' = unsubscribed(subscriptions)
  /\ hoveredObject' = NoObject
  /\ selectedObject' = NoObject
  /\ ev' = [op |-> "dispose", obj |-> NoObject]
  /\ UNCHANGED <<related, layers, rendererVars, animationVars, sizeVars, textureVars, buildVars, fedTime>>

\* An event of the service whose subscription is closed: no handler runs.
unheard(event, object) ==
  /\ ev' = [op |-> "unheard", obj |-> object, event |-> event]
  /\ UNCHANGED <<highlighterVars, rendererVars, animationVars, sizeVars, textureVars, buildVars, fedTime>>

\* The service emits event for object: the handler subscribed to it runs if
\* its subscription is open.
emit(event, object) ==
  IF event \notin subscriptions THEN unheard(event, object)
  ELSE CASE event = "object3DPointerEnter" -> object3DPointerEnter(object)
         [] event = "object3DPointerLeave" -> object3DPointerLeave(object)
         [] event = "object3DSelected" -> object3DSelected(object)
         [] event = "object3DDeselected" -> object3DDeselected(object)

(***************************************************************************)
(* Renderer, scene and camera as the passes use them.  R is the state a     *)
(* render() call threads through its statements: the renderer's settings,   *)
(* the camera's layers, the scene's override material and the list of the   *)
(* clears and draws issued so far.                                          *)
(***************************************************************************)

Entry(R, op, material, reads) ==
  [op |-> op, target |-> R.target, material |-> material, reads |-> reads,
   layers |-> R.camLayers, autoClear |-> R.autoClear,
   clearColor |-> R.clearColor, clearAlpha |-> R.clearAlpha]

\* A statement of render(): it is skipped once a draw has thrown, the
\* exception unwinding render() through the statements that follow.
run(R, next) == IF R.threw THEN R ELSE next

\* renderer.setRenderTarget(target)
setRenderTarget(R, target) == run(R, [R EXCEPT !.target = target])

\* renderer.setClearColor(color, alpha)
setClearColor(R, color, alpha) ==
  run(R, [R EXCEPT !.clearColor = color, !.clearAlpha = alpha])

\* scene.overrideMaterial = material; camera.layers.set(channel)
setOverrideAndLayers(R, material, channel) ==
  run(R, [R EXCEPT !.override = material, !.camLayers = {channel}])

\* A clear or draw call of the renderer: it is logged, or it throws when it is
\* the call R.failAt of this render() (none throws when R.failAt is 0).
draw(R, entry) ==
  run(R, IF R.failAt = Len(R.log) + 1
         THEN [R EXCEPT !.threw = TRUE]
         ELSE [R EXCEPT !.log = Append(@, entry)])

\* renderer.clear()
clear(R) == draw(R, Entry(R, "clear", "none", {}))

\* renderer.render(scene, camera): the scene drawn with the override material
\* through the camera's layers into the current render target.
renderScene(R) == draw(R, Entry(R, "scene", R.override, {}))

\* fsQuad.material = material; fsQuad.render(renderer): a full-screen quad
\* drawn with the material, which samples the textures in reads.
renderQuad(R, material, reads) == draw(R, Entry(R, "quad", material, reads))

(***************************************************************************)
(* AnimatedTextureBlurOutlinePass                                          *)
(***************************************************************************)

\* Math.round(n / 2) for an integer n.
RoundHalf(n) == (n + 1) \div 2

RECURSIVE Gcd(_, _)
Gcd(a, b) == IF b = 0 THEN a ELSE Gcd(b, a % b)

\* The number n / d (d > 0) in lowest terms.
Frac(n, d) == LET g == Gcd(n, d) IN <<n \div g, d \div g>>

shouldRenderOutline == isAnyProductHighlighted

\* Mutation: the uniform keeps the configured startU.
animatedStartUStatic(opts, e) == Frac(opts.startU, 1)

\* startU + tileCount * (elapsed / interval)
animatedStartU(opts, e) ==
  Frac(opts.startU * opts.interval + opts.tileCount * e, opts.interval)

renderMaskTexture(R) ==
  LET R1 == clear(setRenderTarget(R, "mask"))
      R2 == renderScene(setOverrideAndLayers(R1, "hoverMask", HoverLayer))
      R3 == renderScene(setOverrideAndLayers(R2, "selectedMask", SelectedLayer))
  IN setOverrideAndLayers(R3, "null", DefaultLayer)

renderBlurTexture(R) ==
  LET R1 == clear(setRenderTarget(R, "blurHorizontal"))
      R2 == renderQuad(R1, "blur", {"mask"})
      R3 == clear(setRenderTarget(R2, "blurVertical"))
  IN renderQuad(R3, "blur", {"blurHorizontal"})

\* Mutation: the half-res blur is taken from the full-res blur, not the mask.
renderBlurHalfTextureOfBlur(R) ==
  LET R1 == clear(setRenderTarget(R, "blurHorizontalHalf"))
      R2 == renderQuad(R1, "blurHalf", {"blurVertical"})
      R3 == clear(setRenderTarget(R2, "blurVerticalHalf2"))
  IN renderQuad(R3, "blurHalf", {"blurHorizontalHalf"})

renderBlurHalfTexture(R) ==
  LET R1 == clear(setRenderTarget(R, "blurHorizontalHalf"))
      R2 == renderQuad(R1, "blurHalf", {"mask"})
      R3 == clear(setRenderTarget(R2, "blurVerticalHalf2"))
  IN renderQuad(R3, "blurHalf", {"blurHorizontalHalf"})

\* Mutation: the clear colour and alpha are not put back.
restoreRendererAutoClearOnly(R, oldAutoClear, oldClearColor, oldClearAlpha) ==
  run(R, [R EXCEPT !.autoClear = oldAutoClear])

\* The restore at the end of renderOutline.
restoreRenderer(R, oldAutoClear, oldClearColor, oldClearAlpha) ==
  run(R, setClearColor([R EXCEPT !.autoClear = oldAutoClear], oldClearColor, oldClearAlpha))

\* outlineMaterial.uniforms.startU.value = startU + tileCount * progress, when
\* the outline is animated.
setAnimatedStartU(R) ==
  run(R, IF options.animateOutline
         THEN [R EXCEPT !.startU = animatedStartU(options, R.elapsed)]
         ELSE R)

\* if (maskActive) renderer.state.buffers.stencil.setTest(true)
setStencilTest(R, maskActive) ==
  run(R, IF maskActive THEN [R EXCEPT !.stencilTest = TRUE] ELSE R)

\* The mask, blur and composite stages of renderOutline.
renderOutlineStages(R) ==
    LET oldAutoClear == R.autoClear
        oldClearAlpha == R.clearAlpha
        \* getClearColor copies the colour into tempOldClearColor and returns it
        R0 == [R EXCEPT !.tempOldClearColor = R.clearColor]
        R1 == [setClearColor(R0, MaskClearColor, 0) EXCEPT !.autoClear = FALSE]
        R2 == renderBlurHalfTexture(renderBlurTexture(renderMaskTexture(R1)))
        R3 == setAnimatedStartU(R2)
        R4 == renderQuad(setRenderTarget(R3, "readBuffer"), "outline",
                         {"mask", "blurVertical", "blurVerticalHalf2"})
    IN restoreRenderer(R4, oldAutoClear, R4.tempOldClearColor, oldClearAlpha)

\* Mutation: the outline is rendered whether or not anything is highlighted.
renderOutlineAlways(R) == renderOutlineStages(R)

renderOutline(R) ==
  IF ~shouldRenderOutline THEN R ELSE renderOutlineStages(R)

\* Mutation: the read buffer is copied to the display by every pass.
copyToScreenAlways(R, renderToScreen) ==
  renderQuad(setRenderTarget(R, "screen"), "copy", {"readBuffer"})

\* The copy of the read buffer to the display that ends a render() call.
copyToScreen(R, renderToScreen) ==
  IF renderToScreen
  THEN renderQuad(setRenderTarget(R, "screen"), "copy", {"readBuffer"})
  ELSE R

\* The state a render() call starts from.
RenderState ==
  [autoClear |-> renderer.autoClear, clearColor |-> renderer.clearColor,
   clearAlpha |-> renderer.clearAlpha, target |-> renderer.target,
   stencilTest |-> renderer.stencilTest,
   camLayers |-> cameraLayers, override |-> overrideMaterial,
   tempOldClearColor |-> tempOldClearColor,
   elapsed |-> elapsed, startU |-> outlineUniforms.startU, log |-> <<>>,
   failAt |-> 0, threw |-> FALSE]

\* What a render() call leaves behind.
Commit(R) ==
  /\ renderer' = [autoClear |-> R.autoClear, clearColor |-> R.clearColor,
                  clearAlpha |-> R.clearAlpha, target |-> R.target,
                  stencilTest |-> R.stencilTest]
  /\ cameraLayers' = R.camLayers
  /\ overrideMaterial' = R.override
  /\ tempOldClearColor' = R.tempOldClearColor
  /\ elapsed' = R.elapsed
  /\ outlineUniforms' = [outlineUniforms EXCEPT !.startU = R.startU]
  /\ log' = R.log

\* Mutation: elapsed is never wrapped at the interval.
elapsedAfterFrameUnwrapped(e, deltaTime, interval) == e + deltaTime

\* this.elapsed = (this.elapsed + deltaTime) % this.interval
elapsedAfterFrame(e, deltaTime, interval) == (e + deltaTime) % interval

\* The frame clock: the deltaTime given to render() so far, once started.
fedTimeAfter(deltaTime) == IF fedTime = NotFed THEN NotFed ELSE fedTime + deltaTime

\* render() when the renderer call failAt of the frame throws (0: none does).
renderFrame(deltaTime, maskActive, renderToScreen, failAt) ==
  LET R0 == [RenderState EXCEPT !.elapsed = elapsedAfterFrame(elapsed, deltaTime, options.interval),
                                !.failAt = failAt]
      R1 == renderOutline(R0)
      R2 == setStencilTest(R1, maskActive)
      R3 == copyToScreen(R2, renderToScreen)
  IN /\ Commit(R3)
     /\ ev' = [op |-> "render", obj |-> NoObject, active |-> shouldRenderOutline,
               renderToScreen |-> renderToScreen, deltaTime |-> deltaTime,
               failAt |-> failAt, exception |-> R3.threw]
     /\ fedTime' = fedTimeAfter(deltaTime)
     /\ UNCHANGED <<highlighterVars, options, sizeVars, textureVars, buildVars>>

render(deltaTime, maskActive, renderToScreen) ==
  renderFrame(deltaTime, maskActive, renderToScreen, 0)

\* options.key ?? fallback
Coalesce(o, key, fallback) == IF key \in DOMAIN o THEN o[key] ELSE fallback

\* Mutation: setOptions leaves the clock alone.
elapsedAfterSetOptionsKept(opts, e) == e

\* elapsed after setOptions has stored the options opts.
elapsedAfterSetOptions(opts, e) == IF ~opts.animateOutline THEN 0 ELSE e

\* The fields setOptions(o) assigns when they hold current.
storedOptions(o, current) ==
  LET edgeThickness == Coalesce(o, "edgeThickness", current.edgeThickness)
  IN [edgeThickness |-> edgeThickness,
      edgeGlow |-> Coalesce(o, "edgeGlow", edgeThickness),
      startU |-> Coalesce(o, "startU", current.startU),
      tileCount |-> Coalesce(o, "tileCount", current.tileCount),
      animateOutline |-> Coalesce(o, "animateOutline", current.animateOutline),
      interval |-> IF "animationInterval" \in DOMAIN o
                   THEN o.animationInterval \div 1000
                   ELSE current.interval]

\* Mutation: setOptions applies edgeGlow to the half-res blur material.
blurUniformsReapplied(radius, opts) == [radius EXCEPT !.blurHalf = opts.edgeGlow]

\* The kernelRadius uniforms after setOptions has stored opts: setOptions
\* writes to the outline material only.
blurUniformsAfterSetOptions(radius, opts) == radius

setOptions(o) ==
  LET opts == storedOptions(o, options)
  IN /\ options' = opts
     /\ kernelRadius' = blurUniformsAfterSetOptions(kernelRadius, opts)
     /\ elapsed' = elapsedAfterSetOptions(opts, elapsed)
     /\ outlineUniforms' =
          [outlineUniforms EXCEPT
             !.tileCount = opts.tileCount,
             !.startU = IF ~opts.animateOutline THEN Frac(opts.startU, 1) ELSE @]
     /\ ev' = [op |-> "setOptions", obj |-> NoObject]
     /\ UNCHANGED <<highlighterVars, rendererVars, sizeVars, textureVars, construction, fedTime>>

(***************************************************************************)
(* Channel textures and the outline material                               *)
(***************************************************************************)

\* The i-th Texture the pass has created, and renderTarget.texture.
PassTexture(i) == [type |-> "Texture", owner |-> "pass", id |-> i]
textureOf(renderTarget) == [type |-> "Texture", owner |-> "renderTarget", id |-> renderTarget.id]

\* The fields and objects the texture setters work on.
TextureState ==
  [fields |-> textureFields, uniforms |-> outlineUniforms, images |-> textureImages]

getTextureDimensions(image) ==
  IF image = NoImage THEN <<0, 0>>
  ELSE IF image.nodeName = "canvas" THEN <<image.width, image.height>>
  ELSE <<image.naturalWidth, image.naturalHeight>>

\* createNewTexture: the new Texture is the last one of P.images.
createNewTexture(P) == [P EXCEPT !.images = Append(@, NoImage)]

\* Mutation: the new texture is stored in the field and not in the uniform.
createAndSetTextureFieldOnly(P, key) ==
  LET P1 == createNewTexture(P)
  IN [P1 EXCEPT !.fields[key] = PassTexture(Len(P1.images))]

createAndSetTexture(P, key) ==
  LET P1 == createNewTexture(P)
      texture == PassTexture(Len(P1.images))
  IN [P1 EXCEPT !.uniforms[key] = texture, !.fields[key] = texture]

setTextureRenderTarget(P, key, renderTarget) ==
  IF P.fields[key] = renderTarget THEN P
  ELSE [P EXCEPT !.fields[key] = renderTarget, !.uniforms[key] = textureOf(renderTarget)]

setTextureTexture(P, key, image) ==
  LET texture == P.fields[key]
  IN IF isRenderTarget(texture) THEN createAndSetTexture(P, key)
     ELSE IF isTexture(texture)
     THEN LET oldImage == P.images[texture.id]
              P1 == IF oldImage # NoImage
                       /\ getTextureDimensions(oldImage) # getTextureDimensions(image)
                    THEN createAndSetTexture(P, key)
                    ELSE P
          IN [P1 EXCEPT !.images[P1.fields[key].id] = image]
     ELSE P

setTexture(P, key, image) ==
  IF isRenderTarget(image) THEN setTextureRenderTarget(P, key, image)
  ELSE setTextureTexture(P, key, image)

\* The Textures of the pass that a field or a uniform of the current material
\* holds; the others are garbage, and their images are forgotten.
heldTextures(P) ==
  { i \in DOMAIN P.images :
      \E key \in TextureKeys : PassTexture(i) \in {P.fields[key], P.uniforms[key]} }
collected(P) ==
  [P EXCEPT !.images = [i \in DOMAIN P.images |->
                          IF i \in heldTextures(P) THEN P.images[i] ELSE NoImage]]

\* setColors(colors): colors has a hover and a selected source, or either, or
\* none.
setColors(colors) ==
  LET P0 == TextureState
      P1 == IF "hover" \in DOMAIN colors
            THEN setTexture(P0, "hoverTexture", colors.hover) ELSE P0
      P2 == collected(IF "selected" \in DOMAIN colors
                      THEN setTexture(P1, "selectedTexture", colors.selected) ELSE P1)
  IN /\ Len(P2.images) <= MaxTextures
     /\ textureFields' = P2.fields
     /\ outlineUniforms' = P2.uniforms
     /\ textureImages' = P2.images
     /\ ev' = [op |-> "setColors", obj |-> NoObject, colors |-> colors]
     /\ UNCHANGED <<highlighterVars, rendererVars, options, elapsed, sizeVars,
                    outlineMaterial, disposeCalls, buildVars, fedTime>>

\* The uniforms of the material the imported createOutlineMaterial builds from
\* its parameters.
outlineMaterialUniforms(parameters) ==
  [hoverTexture |-> parameters.hoverTexture,
   selectedTexture |-> parameters.selectedTexture,
   startU |-> Frac(parameters.startU, 1),
   tileCount |-> parameters.tileCount]

\* (x as WebGLRenderTarget)?.texture || x
textureOrSelf(x) == IF isRenderTarget(x) THEN textureOf(x) ELSE x

\* The uniforms of the material createOutlineMaterial(outputMode) returns when
\* the texture fields are fields and the options are opts.
createOutlineMaterial(fields, opts) ==
  outlineMaterialUniforms([hoverTexture |-> textureOrSelf(fields.hoverTexture),
                           selectedTexture |-> textureOrSelf(fields.selectedTexture),
                           startU |-> opts.startU, tileCount |-> opts.tileCount])

\* Mutation: the previous material is left undisposed.
disposedNever(calls, material) == calls

\* material.dispose()
disposed(calls, material) == [calls EXCEPT ![material] = @ + 1]

setOutputMode(mode) ==
  /\ Len(disposeCalls) < MaxMaterials
  /\ disposeCalls' = Append(disposed(disposeCalls, outlineMaterial.id), 0)
  /\ outlineMaterial' = [id |-> Len(disposeCalls) + 1, outputMode |-> mode]
  /\ outlineUniforms' = createOutlineMaterial(textureFields, options)
  /\ ev' = [op |-> "setOutputMode", obj |-> NoObject, mode |-> mode,
            replaced |-> outlineMaterial]
  /\ UNCHANGED <<highlighterVars, rendererVars, options, elapsed, sizeVars,
                 textureFields, textureImages, buildVars, fedTime>>

\* Mutation: the half-res size is a quarter of the canvas size, rounded once.
resizedTexSizeRoundedOnce(width, height) ==
  [blur |-> <<RoundHalf(width), RoundHalf(height)>>,
   blurHalf |-> <<(width + 2) \div 4, (height + 2) \div 4>>]

\* The texSize uniforms setSize(width, height) writes.
resizedTexSize(width, height) ==
  LET resX == RoundHalf(width)
      resY == RoundHalf(height)
  IN [blur |-> <<resX, resY>>,
      blurHalf |-> <<RoundHalf(resX), RoundHalf(resY)>>]

\* The render targets T after setSize(width, height).
resizedTargets(T, width, height) ==
  [T EXCEPT !.mask = <<width, height>>,
            !.blurHorizontal = resizedTexSize(width, height).blur,
            !.blurHorizontalHalf = resizedTexSize(width, height).blurHalf]

setSize(width, height) ==
  /\ targets' = resizedTargets(targets, width, height)
  /\ texSize' = resizedTexSize(width, height)
  /\ ev' = [op |-> "setSize", obj |-> NoObject, width |-> width, height |-> height]
  /\ UNCHANGED <<highlighterVars, rendererVars, animationVars, colorTargets, colorTexSize, textureVars, buildVars, fedTime>>

\* The render targets the constructor builds for a resolution, and the
\* texSize and kernelRadius uniforms of the two blur materials when the
\* edgeGlow field holds edgeGlow.
blurRenderTargetsAndMaterials(resolution, edgeGlow) ==
  LET resX == RoundHalf(resolution[1])
      resY == RoundHalf(resolution[2])
  IN [targets |-> [mask |-> resolution,
                   blurHorizontal |-> <<resX, resY>>,
                   blurVertical |-> <<resX, resY>>,
                   blurHorizontalHalf |-> <<RoundHalf(resX), RoundHalf(resY)>>,
                   blurVerticalHalf2 |-> <<RoundHalf(resX), RoundHalf(resY)>>],
      texSize |-> [blur |-> <<resX, resY>>,
                   blurHalf |-> <<RoundHalf(resX), RoundHalf(resY)>>],
      kernelRadius |-> [blur |-> 1, blurHalf |-> edgeGlow]]

\* The pass after initBlurRenderTargetsAndMaterials(resolution).
initBlurRenderTargetsAndMaterials(resolution) ==
  /\ targets = blurRenderTargetsAndMaterials(resolution, options.edgeGlow).targets
  /\ texSize = blurRenderTargetsAndMaterials(resolution, options.edgeGlow).texSize
  /\ kernelRadius = blurRenderTargetsAndMaterials(resolution, options.edgeGlow).kernelRadius

(***************************************************************************)
(* ColorBlurOutlinePass                                                    *)
(***************************************************************************)

\* The render targets of ColorBlurOutlinePass after setSize(width, height).
colorResizedTargets(width, height) ==
  [mask |-> <<width, height>>,
   blur |-> resizedTexSize(width, height).blur,
   blurHalf |-> resizedTexSize(width, height).blurHalf]

colorSetSize(width, height) ==
  /\ colorTargets' = colorResizedTargets(width, height)
  /\ colorTexSize' = resizedTexSize(width, height)
  /\ ev' = [op |-> "colorSetSize", obj |-> NoObject, width |-> width, height |-> height]
  /\ UNCHANGED <<highlighterVars, rendererVars, animationVars, targets, texSize, textureVars, buildVars, fedTime>>

\* The render targets and texSize uniforms the constructor of
\* ColorBlurOutlinePass builds for a resolution.
colorInitBlurRenderTargetsAndMaterials(resolution) ==
  /\ colorTargets = colorResizedTargets(resolution[1], resolution[2])
  /\ colorTexSize = resizedTexSize(resolution[1], resolution[2])

colorRenderMaskTexture(R) ==
  LET R1 == clear(setRenderTarget(R, "colorMask"))
      R2 == renderScene([R1 EXCEPT !.override = "hoverMask", !.camLayers = {HoverLayer}])
      R3 == renderScene([R2 EXCEPT !.override = "selectedMask", !.camLayers = {SelectedLayer}])
  IN [R3 EXCEPT !.camLayers = {DefaultLayer}, !.override = "null"]

colorRenderBlurTexture(R) ==
  LET R1 == clear(setRenderTarget(R, "colorBlur"))
      R2 == renderQuad(R1, "colorBlurMaterial", {"colorMask"})
  IN renderQuad(R2, "colorBlurMaterial", {"colorBlur"})

colorRenderBlurHalfTexture(R) ==
  LET R1 == clear(setRenderTarget(R, "colorBlurHalf"))
      R2 == renderQuad(R1, "colorBlurHalfMaterial", {"colorMask"})
  IN renderQuad(R2, "colorBlurHalfMaterial", {"colorBlurHalf"})

\* The restore in ColorBlurOutlinePass.render.
colorRestoreRenderer(R, oldAutoClear, oldClearColor, oldClearAlpha) ==
  setClearColor([R EXCEPT !.autoClear = oldAutoClear], oldClearColor, oldClearAlpha)

colorRender(renderToScreen) ==
  LET R == RenderState
      oldAutoClear == R.autoClear
      oldClearAlpha == R.clearAlpha
      oldClearColor == R.clearColor
      R1 == [setClearColor(R, MaskClearColor, 0) EXCEPT !.autoClear = FALSE]
      R2 == colorRenderBlurHalfTexture(colorRenderBlurTexture(colorRenderMaskTexture(R1)))
      R3 == renderQuad(setRenderTarget(R2, "readBuffer"), "colorOutline",
                       {"colorMask", "colorBlur", "colorBlurHalf"})
      R4 == colorRestoreRenderer(R3, oldAutoClear, oldClearColor, oldClearAlpha)
      R5 == copyToScreen(R4, renderToScreen)
  IN /\ Commit(R5)
     /\ ev' = [op |-> "colorRender", obj |-> NoObject, active |-> TRUE,
               renderToScreen |-> renderToScreen]
     /\ UNCHANGED <<highlighterVars, options, sizeVars, textureVars, buildVars, fedTime>>

(***************************************************************************)
(* Construction of the two passes                                          *)
(***************************************************************************)

\* The field initialisers of AnimatedTextureBlurOutlinePass.
FieldInitialisers ==
  [edgeThickness |-> 1, edgeGlow |-> 2, startU |-> 0, tileCount |-> 1,
   animateOutline |-> TRUE, interval |-> 60]

\* The end of either constructor, from the CopyShader check on: without
\* CopyShader the error is logged and CopyShader.uniforms throws a TypeError.
copyMaterialBuilt(c, pass) ==
  IF c.CopyShader
  THEN [c EXCEPT ![pass] = "constructed"]
  ELSE [c EXCEPT ![pass] = "threw", !.consoleErrors = @ + 1]

\* new AnimatedTextureBlurOutlinePass(..., resolution, scene, camera, o):
\* setOptions(o) runs before the outline material exists and returns after
\* storing the fields.
construct(resolution, o) ==
  LET opts == storedOptions(o, options)
      fields == [hoverTexture |-> PassTexture(1), selectedTexture |-> PassTexture(2)]
      built == blurRenderTargetsAndMaterials(resolution, opts.edgeGlow)
  IN /\ construction.pass = "new"
     /\ options' = opts
     /\ textureFields' = fields
     /\ textureImages' = <<NoImage, NoImage>>
     /\ outlineMaterial' = [id |-> 1, outputMode |-> "Normal"]
     /\ disposeCalls' = <<0>>
     /\ outlineUniforms' = createOutlineMaterial(fields, opts)
     /\ targets' = built.targets
     /\ texSize' = built.texSize
     /\ kernelRadius' = built.kernelRadius
     /\ construction' = copyMaterialBuilt(construction, "pass")
     /\ ev' = [op |-> "construct", obj |-> NoObject, options |-> o]
     /\ UNCHANGED <<highlighterVars, rendererVars, elapsed, colorTargets, colorTexSize, fedTime>>

\* new ColorBlurOutlinePass(..., resolution, scene, camera, hoverColor, selectedColor)
colorConstruct(resolution) ==
  /\ construction.colorPass = "new"
  /\ colorTargets' = colorResizedTargets(resolution[1], resolution[2])
  /\ colorTexSize' = resizedTexSize(resolution[1], resolution[2])
  /\ construction' = copyMaterialBuilt(construction, "colorPass")
  /\ ev' = [op |-> "colorConstruct", obj |-> NoObject]
  /\ UNCHANGED <<highlighterVars, rendererVars, animationVars, targets, texSize,
                 kernelRadius, textureVars, fedTime>>

(***************************************************************************)
(* Initial states                                                          *)
(***************************************************************************)

\* The scene in which no object has a related list.
NoRelated == [o \in Objects |-> {}]

InitHighlighterFields ==
  /\ layers = [o \in Objects |-> {DefaultLayer}]
  /\ hoveredObject = NoObject
  /\ selectedObject = NoObject
  /\ subscriptions = HighlighterEvents

\* The field initialisers of AnimatedTextureBlurOutlinePass and its constructor
\* run with options = {}: setOptions leaves edgeGlow at edgeThickness.
InitAnimation ==
  /\ options = [edgeThickness |-> 1, edgeGlow |-> 1, startU |-> 0, tileCount |-> 1,
                animateOutline |-> TRUE, interval |-> 60]
  /\ elapsed = 0
  /\ textureFields = [hoverTexture |-> PassTexture(1), selectedTexture |-> PassTexture(2)]
  /\ textureImages = <<NoImage, NoImage>>
  /\ outlineMaterial = [id |-> 1, outputMode |-> "Normal"]
  /\ disposeCalls = <<0>>
  /\ outlineUniforms = createOutlineMaterial(textureFields, options)

\* A renderer, camera and scene as three.js creates them.
InitRendererDefault ==
  /\ renderer = [autoClear |-> TRUE, clearColor |-> MaskClearColor, clearAlpha |-> 0,
                 target |-> "screen", stencilTest |-> FALSE]
  /\ cameraLayers = {DefaultLayer}
  /\ overrideMaterial = "null"
  /\ tempOldClearColor = White
  /\ log = <<>>

\* A renderer, camera and scene as the host may have configured them.
InitRendererAny ==
  /\ renderer \in [autoClear : BOOLEAN, clearColor : HostClearColors,
                   clearAlpha : HostClearAlphas, target : {"screen"},
                   stencilTest : {FALSE}]
  /\ cameraLayers \in {{DefaultLayer}, {DefaultLayer, HoverLayer, SelectedLayer}}
  /\ overrideMaterial \in {"null", "hostMaterial"}
  /\ tempOldClearColor = White
  /\ log = <<>>

\* Both passes constructed with CopyShader imported; the frame clock is off.
InitBuilt ==
  /\ construction = [CopyShader |-> TRUE, pass |-> "constructed",
                     colorPass |-> "constructed", consoleErrors |-> 0]
  /\ fedTime = NotFed

InitEv == ev = [op |-> "init", obj |-> NoObject]

(***************************************************************************)
(* Actions                                                                 *)
(***************************************************************************)

PointerEnter == \E o \in Objects : object3DPointerEnter(o)
PointerLeave == \E o \in Objects : object3DPointerLeave(o)
Selected == \E o \in Objects : object3DSelected(o)
Deselected == \E o \in Objects : object3DDeselected(o)
Render == \E dt \in DeltaTimes, maskActive \in BOOLEAN, rts \in BOOLEAN : render(dt, maskActive, rts)
ColorRender == \E rts \in BOOLEAN : colorRender(rts)
SetSize == \E size \in Resolutions : setSize(size[1], size[2])
ColorSetSize == \E size \in Resolutions : colorSetSize(size[1], size[2])
SetAnimationOptions == \E o \in AnimationOptions : setOptions(o)
SetOutputMode == \E mode \in OutputModes : setOutputMode(mode)
SetColors == \E colors \in ColorInputs : setColors(colors)
\* A frame in which one of the renderer's clears and draws throws.
RenderThrowing ==
  \E failAt \in 1..DrawsPerRender, rts \in BOOLEAN : renderFrame(15, FALSE, rts, failAt)
\* A frame that neither ends a mask nor is the last pass of the composer.
RenderFrame == \E dt \in DeltaTimes : render(dt, FALSE, FALSE)

(***************************************************************************)
(* The highlighter under every sequence of pointer and selection events,   *)
(* in every scene.                                                         *)
(***************************************************************************)
InitHighlighter ==
  /\ related \in RelatedConfigs
  /\ InitHighlighterFields
  /\ InitRendererDefault
  /\ InitAnimation
  /\ initBlurRenderTargetsAndMaterials(<<MaxDim, MaxDim>>)
  /\ colorInitBlurRenderTargetsAndMaterials(<<MaxDim, MaxDim>>)
  /\ InitBuilt
  /\ InitEv

NextHighlighter == PointerEnter \/ PointerLeave \/ Selected \/ Deselected

SpecHighlighter == InitHighlighter /\ [][NextHighlighter]_vars

(***************************************************************************)
(* Teardown: the service keeps emitting the four events in any order       *)
(* before and after dispose(), in a scene without related lists and in one *)
(* where every object is related to every other.                           *)
(***************************************************************************)
AllRelated == [o \in Objects |-> Objects \ {o}]

InitDispose ==
  /\ related \in {NoRelated, AllRelated}
  /\ InitHighlighterFields
  /\ InitRendererDefault
  /\ InitAnimation
  /\ initBlurRenderTargetsAndMaterials(<<MaxDim, MaxDim>>)
  /\ colorInitBlurRenderTargetsAndMaterials(<<MaxDim, MaxDim>>)
  /\ InitBuilt
  /\ InitEv

EmitPointerEnter == \E o \in Objects : emit("object3DPointerEnter", o)
EmitPointerLeave == \E o \in Objects : emit("object3DPointerLeave", o)
EmitSelected == \E o \in Objects : emit("object3DSelected", o)
EmitDeselected == \E o \in Objects : emit("object3DDeselected", o)
Dispose == dispose

NextDispose ==
  \/ EmitPointerEnter
  \/ EmitPointerLeave
  \/ EmitSelected
  \/ EmitDeselected
  \/ Dispose

SpecDispose == InitDispose /\ [][NextDispose]_vars

(***************************************************************************)
(* The frame loop: both outline passes rendering while objects are hovered *)
(* and selected, for every renderer configuration.                         *)
(***************************************************************************)
InitRender ==
  /\ related = NoRelated
  /\ InitHighlighterFields
  /\ InitRendererAny
  /\ InitAnimation
  /\ initBlurRenderTargetsAndMaterials(<<MaxDim, MaxDim>>)
  /\ colorInitBlurRenderTargetsAndMaterials(<<MaxDim, MaxDim>>)
  /\ InitBuilt
  /\ InitEv

\* render() reads the highlighter through isAnyProductHighlighted() alone, so
\* the frame loop is explored with the pointer and the selection on one object.
FrameObjects == {1}
FramePointerEnter == \E o \in FrameObjects : object3DPointerEnter(o)
FramePointerLeave == \E o \in FrameObjects : object3DPointerLeave(o)
FrameSelected == \E o \in FrameObjects : object3DSelected(o)
FrameDeselected == \E o \in FrameObjects : object3DDeselected(o)

NextRender ==
  \/ Render
  \/ ColorRender
  \/ FramePointerEnter
  \/ FramePointerLeave
  \/ FrameSelected
  \/ FrameDeselected

SpecRender == InitRender /\ [][NextRender]_vars

(***************************************************************************)
(* Canvas resizes of both passes after construction at every resolution.   *)
(***************************************************************************)
InitResize ==
  /\ related = NoRelated
  /\ InitHighlighterFields
  /\ InitRendererDefault
  /\ InitAnimation
  /\ \E resolution \in Resolutions :
       /\ initBlurRenderTargetsAndMaterials(resolution)
       /\ colorInitBlurRenderTargetsAndMaterials(resolution)
  /\ InitBuilt
  /\ InitEv

NextResize == SetSize \/ ColorSetSize

SpecResize == InitResize /\ [][NextResize]_vars

(***************************************************************************)
(* Frames in which a call of the renderer throws, for every renderer       *)
(* configuration.                                                          *)
(***************************************************************************)
NextFailure ==
  \/ RenderThrowing
  \/ RenderFrame
  \/ FramePointerEnter
  \/ FramePointerLeave

SpecFailure == InitRender /\ [][NextFailure]_vars

(***************************************************************************)
(* The animation clock: option changes, material rebuilds and frames while *)
(* an object is hovered or selected, or none is.                           *)
(***************************************************************************)
InitConstructed ==
  /\ related = NoRelated
  /\ InitHighlighterFields
  /\ InitRendererDefault
  /\ InitAnimation
  /\ initBlurRenderTargetsAndMaterials(<<MaxDim, MaxDim>>)
  /\ colorInitBlurRenderTargetsAndMaterials(<<MaxDim, MaxDim>>)
  /\ InitBuilt
  /\ InitEv

NextAnimation ==
  \/ SetAnimationOptions
  \/ SetOutputMode
  \/ RenderFrame
  \/ FramePointerEnter
  \/ FramePointerLeave

SpecAnimation == InitConstructed /\ [][NextAnimation]_vars

(***************************************************************************)
(* The channel textures: colour sources set, materials rebuilt, options    *)
(* changed and frames rendered in any order.                               *)
(***************************************************************************)
\* setOptions and render() never touch a texture field or a texture uniform:
\* they are explored here with one option change and one frame time each.
SetTextureOptions == \E o \in TextureOptions : setOptions(o)
RenderTextureFrame == \E dt \in {30} : render(dt, FALSE, FALSE)

NextTextures ==
  \/ SetColors
  \/ SetOutputMode
  \/ SetTextureOptions
  \/ RenderTextureFrame

SpecTextures == InitConstructed /\ [][NextTextures]_vars

(***************************************************************************)
(* The channel textures when an image handed to setColors may have failed  *)
(* to load.                                                                *)
(***************************************************************************)
SetDecodedColors == \E colors \in DecodeInputs : setColors(colors)

NextDecode ==
  \/ SetDecodedColors
  \/ SetOutputMode

SpecDecode == InitConstructed /\ [][NextDecode]_vars

(***************************************************************************)
(* Construction of both passes with and without CopyShader, and the edge   *)
(* options set and frames rendered on the pass that was constructed.       *)
(***************************************************************************)
\* A field read before the constructor has assigned it.
UndefinedTexture == [type |-> "undefined", id |-> 0, owner |-> "none"]

InitNew ==
  /\ related = NoRelated
  /\ InitHighlighterFields
  /\ InitRendererDefault
  /\ options = FieldInitialisers
  /\ elapsed = 0
  /\ textureFields = [hoverTexture |-> UndefinedTexture, selectedTexture |-> UndefinedTexture]
  /\ textureImages = <<>>
  /\ outlineMaterial = [id |-> 0, outputMode |-> "undefined"]
  /\ disposeCalls = <<>>
  /\ outlineUniforms = [hoverTexture |-> UndefinedTexture, selectedTexture |-> UndefinedTexture,
                        startU |-> Frac(0, 1), tileCount |-> 0]
  /\ targets = [mask |-> <<0, 0>>, blurHorizontal |-> <<0, 0>>, blurVertical |-> <<0, 0>>,
                blurHorizontalHalf |-> <<0, 0>>, blurVerticalHalf2 |-> <<0, 0>>]
  /\ texSize = [blur |-> <<0, 0>>, blurHalf |-> <<0, 0>>]
  /\ kernelRadius = [blur |-> 0, blurHalf |-> 0]
  /\ colorTargets = [mask |-> <<0, 0>>, blur |-> <<0, 0>>, blurHalf |-> <<0, 0>>]
  /\ colorTexSize = [blur |-> <<0, 0>>, blurHalf |-> <<0, 0>>]
  /\ construction \in [CopyShader : BOOLEAN, pass : {"new"}, colorPass : {"new"},
                        consoleErrors : {0}]
  /\ fedTime = NotFed
  /\ InitEv

Construct == \E resolution \in BuildResolutions, o \in EdgeOptions : construct(resolution, o)
ColorConstruct == \E resolution \in BuildResolutions : colorConstruct(resolution)
SetEdgeOptions == construction.pass = "constructed" /\ \E o \in EdgeOptions : setOptions(o)
RenderBuilt ==
  /\ construction.pass = "constructed"
  /\ \E renderToScreen \in BOOLEAN : render(15, FALSE, renderToScreen)

NextConstruct ==
  \/ Construct
  \/ ColorConstruct
  \/ SetEdgeOptions
  \/ RenderBuilt

SpecConstruct == InitNew /\ [][NextConstruct]_vars

(***************************************************************************)
(* A scrolling outline: the pass constructed with tileCount 2, an object   *)
(* hovered from the first frame on, the frame clock running.               *)
(***************************************************************************)
ScrollOptions == "tileCount" :> 2

InitScroll ==
  /\ related = NoRelated
  /\ hoveredObject = 1
  /\ selectedObject = NoObject
  /\ subscriptions = HighlighterEvents
  /\ layers = setHoverMaterial([o \in Objects |-> {DefaultLayer}], NoObject, 1)
  /\ InitRendererDefault
  /\ options = storedOptions(ScrollOptions, FieldInitialisers)
  /\ elapsed = 0
  /\ textureFields = [hoverTexture |-> PassTexture(1), selectedTexture |-> PassTexture(2)]
  /\ textureImages = <<NoImage, NoImage>>
  /\ outlineMaterial = [id |-> 1, outputMode |-> "Normal"]
  /\ disposeCalls = <<0>>
  /\ outlineUniforms = createOutlineMaterial(textureFields, options)
  /\ initBlurRenderTargetsAndMaterials(<<MaxDim, MaxDim>>)
  /\ colorInitBlurRenderTargetsAndMaterials(<<MaxDim, MaxDim>>)
  /\ construction = [CopyShader |-> TRUE, pass |-> "constructed",
                     colorPass |-> "constructed", consoleErrors |-> 0]
  /\ fedTime = 0
  /\ InitEv

FeedFrame ==
  \E deltaTime \in ScrollDeltaTimes, renderToScreen \in BOOLEAN :
    /\ fedTime + deltaTime <= MaxFedTime
    /\ render(deltaTime, FALSE, renderToScreen)

NextScroll ==
  \/ FeedFrame
  \/ FrameSelected
  \/ FrameDeselected

SpecScroll == InitScroll /\ [][NextScroll]_vars

(***************************************************************************)
(* Properties                                                              *)
(***************************************************************************)

\* The render targets the animated outline pass owns.
OutlineTargets ==
  {"mask", "blurHorizontal", "blurVertical", "blurHorizontalHalf", "blurVerticalHalf2"}

\* The step is a call of render() of AnimatedTextureBlurOutlinePass.
IsRenderStep == ev'.op = "render" /\ vars' # vars

\* The step is a call of render() of either outline pass.
IsAnyRenderStep == ev'.op \in {"render", "colorRender"} /\ vars' # vars

\* C1: with neither a hovered nor a selected object shouldRenderOutline() is
\* false, and render() draws no scene, neither draws into nor clears the mask,
\* blur and half-blur targets, and leaves the renderer's clear colour, clear
\* alpha and autoClear, the camera's layers and the scene's override material
\* as they were.
C1_IdleRenderIsPassThrough ==
  [][ (hoveredObject = NoObject /\ selectedObject = NoObject /\ IsRenderStep) =>
        /\ ~shouldRenderOutline
        /\ \A i \in DOMAIN log' :
             log'[i].op # "scene" /\ log'[i].target \notin OutlineTargets
        /\ renderer'.clearColor = renderer.clearColor
        /\ renderer'.clearAlpha = renderer.clearAlpha
        /\ renderer'.autoClear = renderer.autoClear
        /\ cameraLayers' = cameraLayers
        /\ overrideMaterial' = overrideMaterial ]_vars

\* An Idle render() has run, on a renderer whose settings are not the ones an
\* Active render installs or leaves behind, and has copied to the display.
C1_Witness ==
  /\ ev.op = "render" /\ ~ev.active /\ ev.renderToScreen
  /\ hoveredObject = NoObject /\ selectedObject = NoObject
  /\ Len(log) = 1 /\ log[1].target = "screen"
  /\ renderer.autoClear /\ renderer.clearColor = White /\ renderer.clearAlpha = 1
  /\ cameraLayers # {DefaultLayer}
  /\ overrideMaterial = "hostMaterial"

\* C2: every render() call of either outline pass leaves the renderer's
\* autoClear flag, clear colour and clear alpha as they were before the call.
C2_RenderRestoresClearState ==
  [][ IsAnyRenderStep =>
        /\ renderer'.autoClear = renderer.autoClear
        /\ renderer'.clearColor = renderer.clearColor
        /\ renderer'.clearAlpha = renderer.clearAlpha ]_vars

\* An Active render() has drawn with autoClear off and the mask clear colour,
\* and the renderer again holds settings that differ from all three.
C2_Witness ==
  /\ ev.op = "render" /\ ev.active
  /\ \E i \in DOMAIN log :
       /\ log[i].op = "quad" /\ log[i].material = "outline"
       /\ ~log[i].autoClear
       /\ log[i].clearColor = MaskClearColor /\ log[i].clearAlpha = 0
  /\ renderer.autoClear /\ renderer.clearColor = White /\ renderer.clearAlpha = 1

\* The objects that carry a layer.
WithLayer(L, channel) == {o \in Objects : channel \in L[o]}

\* Two objects overlap when they are the same object, one is in the other's
\* related list, or the two related lists share an object.
Overlap(a, b) ==
  a = b \/ b \in related[a] \/ a \in related[b] \/ related[a] \cap related[b] # {}

\* The step is the handler op called with object o.
IsEventStep(op, o) == ev' = [op |-> op, obj |-> o] /\ vars' # vars

\* C3: in every state reachable by pointer-enter, pointer-leave, select and
\* deselect events, neither the selected object nor any of its related
\* siblings has layer 1 (hover) enabled.
C3_SelectedNeverHovered ==
  selectedObject # NoObject =>
    \A o \in {selectedObject} \cup related[selectedObject] : HoverLayer \notin layers[o]

\* C4: if X is hovered with layer 1 on X and all its related siblings, then
\* select(X) leaves layer 1 off and layer 2 on for X and every sibling, and a
\* following deselect(X) leaves layer 1 on and layer 2 off for all of them.
C4_SelectThenDeselectHovered ==
  [][ \A X \in Objects :
        /\ ( /\ hoveredObject = X
             /\ \A o \in {X} \cup related[X] : HoverLayer \in layers[o]
             /\ IsEventStep("select", X) )
           => \A o \in {X} \cup related[X] :
                HoverLayer \notin layers'[o] /\ SelectedLayer \in layers'[o]
        /\ ( /\ ev = [op |-> "select", obj |-> X]
             /\ hoveredObject = X
             /\ IsEventStep("deselect", X) )
           => \A o \in {X} \cup related[X] :
                HoverLayer \in layers'[o] /\ SelectedLayer \notin layers'[o] ]_vars

\* select(X) has run on the hovered object X, which has related siblings:
\* all of them show the selection and none the hover.
C4_Witness ==
  \E X \in Objects :
    /\ ev = [op |-> "select", obj |-> X]
    /\ hoveredObject = X /\ selectedObject = X
    /\ related[X] # {}
    /\ \A o \in {X} \cup related[X] :
         HoverLayer \notin layers[o] /\ SelectedLayer \in layers[o]

\* C5: when select(Y) arrives while another object X is selected and the
\* hovered object overlaps X but not Y, layer 2 is afterwards off for X and
\* its siblings and layer 1 is on again for the hovered object and its
\* siblings.
C5_ReselectRestoresHover ==
  [][ \A X, Y \in Objects :
        ( /\ X # Y
          /\ selectedObject = X
          /\ hoveredObject # NoObject
          /\ Overlap(hoveredObject, X)
          /\ ~Overlap(hoveredObject, Y)
          /\ IsEventStep("select", Y) )
        => /\ \A o \in {X} \cup related[X] : SelectedLayer \notin layers'[o]
           /\ \A o \in {hoveredObject} \cup related[hoveredObject] :
                HoverLayer \in layers'[o] ]_vars

\* Nothing is highlighted: no reference is set and no object carries layer 1
\* or layer 2.
NothingHighlighted ==
  /\ hoveredObject = NoObject /\ selectedObject = NoObject
  /\ WithLayer(layers, HoverLayer) = {} /\ WithLayer(layers, SelectedLayer) = {}

\* The three steps of the scenario enter(X), select(Y), leave(X) from a state
\* with nothing highlighted.  Each step starts in the state the step before it
\* ends in, which the hovered and selected references and the layer bits
\* determine.
ScenarioSteps(X, Y) ==
  /\ (NothingHighlighted /\ IsEventStep("enter", X))
       => /\ WithLayer(layers', HoverLayer) = {X} \cup related[X]
          /\ WithLayer(layers', SelectedLayer) = {}
  /\ ( /\ ev = [op |-> "enter", obj |-> X]
       /\ hoveredObject = X /\ selectedObject = NoObject
       /\ WithLayer(layers, HoverLayer) = {X} \cup related[X]
       /\ WithLayer(layers, SelectedLayer) = {}
       /\ IsEventStep("select", Y) )
       => /\ WithLayer(layers', SelectedLayer) = {Y} \cup related[Y]
          /\ \A o \in Objects : (HoverLayer \in layers'[o]) = (HoverLayer \in layers[o])
  /\ ( /\ ev = [op |-> "select", obj |-> Y]
       /\ hoveredObject = X /\ selectedObject = Y
       /\ WithLayer(layers, HoverLayer) = {X} \cup related[X]
       /\ WithLayer(layers, SelectedLayer) = {Y} \cup related[Y]
       /\ IsEventStep("leave", X) )
       => /\ WithLayer(layers', HoverLayer) = {}
          /\ WithLayer(layers', SelectedLayer) = {Y} \cup related[Y]
          /\ hoveredObject' = NoObject /\ selectedObject' = Y

\* C6 as stated: for any two distinct objects X and Y, from nothing
\* highlighted, enter(X) puts layer 1 on X and its siblings; select(Y) then
\* puts layer 2 on Y and its siblings and leaves layer 1 untouched; leave(X)
\* then takes layer 1 off, so that only layer 2 on Y and its siblings remains.
C6_Original ==
  [][ \A X, Y \in Objects : X # Y => ScenarioSteps(X, Y) ]_vars

\* C6 as amended: the same, for any two distinct objects X and Y that do not
\* overlap (neither is in the other's related list and their related lists
\* share no object).
C6_HoverSelectLeave ==
  [][ \A X, Y \in Objects : (X # Y /\ ~Overlap(X, Y)) => ScenarioSteps(X, Y) ]_vars

\* The scenario has ended: leave(X) has run, a non-overlapping Y with related
\* siblings is selected, layer 2 is on exactly Y and its siblings, layer 1 on
\* no object.
C6_Witness ==
  \E X, Y \in Objects :
    /\ X # Y /\ ~Overlap(X, Y) /\ related[Y] # {}
    /\ ev = [op |-> "leave", obj |-> X]
    /\ hoveredObject = NoObject /\ selectedObject = Y
    /\ WithLayer(layers, HoverLayer) = {}
    /\ WithLayer(layers, SelectedLayer) = {Y} \cup related[Y]

\* C7: pointer-enter(o) changes no layer bit when o overlaps the selected
\* object; otherwise it enables layer 1 on o and on every object of o's
\* related list and changes no layer 2 bit.
C7_PointerEnterEffect ==
  [][ \A o \in Objects :
        IsEventStep("enter", o) =>
          IF selectedObject # NoObject /\ Overlap(o, selectedObject)
          THEN layers' = layers
          ELSE /\ \A x \in {o} \cup related[o] : HoverLayer \in layers'[x]
               /\ \A x \in Objects :
                    (SelectedLayer \in layers'[x]) = (SelectedLayer \in layers[x]) ]_vars

\* pointer-enter(o) has run on an object that is not the selected one but
\* shares a related sibling with it: o is recorded as hovered and neither o nor
\* its siblings carry layer 1.
C7_Witness ==
  \E o \in Objects :
    /\ ev = [op |-> "enter", obj |-> o]
    /\ hoveredObject = o
    /\ selectedObject \notin {NoObject, o}
    /\ Overlap(o, selectedObject)
    /\ related[o] # {}
    /\ \A x \in {o} \cup related[o] : HoverLayer \notin layers[x]

\* C8 as stated: areObjectOrRelatedEqual(a, b) is true exactly when a and b
\* are the same object or one is in the other's related list; it is symmetric,
\* and false for two distinct objects that merely share a third object in
\* their related lists.
C8_Original ==
  \A a, b \in Objects :
    /\ areObjectOrRelatedEqual(a, b) <=> (a = b \/ b \in related[a] \/ a \in related[b])
    /\ areObjectOrRelatedEqual(a, b) = areObjectOrRelatedEqual(b, a)

\* C8 as amended: areObjectOrRelatedEqual(a, b) is true exactly when a and b
\* are the same object, or one is in the other's related list, or the two
\* related lists share an object; it is symmetric, and true for two distinct
\* objects that merely share a third object in their related lists.
C8_OverlapIsSharedMember ==
  \A a, b \in Objects :
    /\ areObjectOrRelatedEqual(a, b) <=>
         (a = b \/ b \in related[a] \/ a \in related[b] \/ related[a] \cap related[b] # {})
    /\ areObjectOrRelatedEqual(a, b) = areObjectOrRelatedEqual(b, a)

\* The test has decided a handler's outcome for two distinct objects that only
\* share a third: a is hovered, select(b) has run, and the hover layer is gone
\* from a and its siblings.
C8_Witness ==
  \E a, b \in Objects :
    /\ a # b /\ b \notin related[a] /\ a \notin related[b]
    /\ related[a] \cap related[b] # {}
    /\ ev = [op |-> "select", obj |-> b]
    /\ hoveredObject = a /\ selectedObject = b
    /\ \A x \in {a} \cup related[a] : HoverLayer \notin layers[x]
    /\ areObjectOrRelatedEqual(a, b)

\* C9: after pointer-leave(o), from any state, the hovered reference is unset,
\* layer 1 is off for o and every object of o's related list, and the selected
\* reference and all layer 2 bits are as before.
C9_PointerLeaveEffect ==
  [][ \A o \in Objects :
        IsEventStep("leave", o) =>
          /\ hoveredObject' = NoObject
          /\ \A x \in {o} \cup related[o] : HoverLayer \notin layers'[x]
          /\ selectedObject' = selectedObject
          /\ \A x \in Objects :
               (SelectedLayer \in layers'[x]) = (SelectedLayer \in layers[x]) ]_vars

\* pointer-leave(o) has run for an object with related siblings while another
\* object stays selected with layer 2 on.
C9_Witness ==
  \E o \in Objects :
    /\ ev = [op |-> "leave", obj |-> o]
    /\ related[o] # {}
    /\ hoveredObject = NoObject
    /\ selectedObject # NoObject
    /\ SelectedLayer \in layers[selectedObject]
    /\ \A x \in {o} \cup related[o] : HoverLayer \notin layers[x]

IsSetSizeCall == ev.op \in {"setSize", "colorSetSize"}

\* The full-res and half-res blur sizes the last setSize call of a pass wrote:
\* the targets it resized and the texSize uniforms of the two blur materials.
ResizedBlur ==
  IF ev.op = "setSize"
  THEN [full |-> {targets.blurHorizontal, texSize.blur},
        half |-> {targets.blurHorizontalHalf, texSize.blurHalf}]
  ELSE [full |-> {colorTargets.blur, colorTexSize.blur},
        half |-> {colorTargets.blurHalf, colorTexSize.blurHalf}]

\* Calling setSize again with the arguments of the last call changes nothing.
RepeatedSetSizeChangesNothing ==
  IF ev.op = "setSize"
  THEN /\ resizedTargets(targets, ev.width, ev.height) = targets
       /\ resizedTexSize(ev.width, ev.height) = texSize
  ELSE /\ colorResizedTargets(ev.width, ev.height) = colorTargets
       /\ resizedTexSize(ev.width, ev.height) = colorTexSize

C12_NonPositiveSizeRejected ==
  [][ (ev'.op \in {"setSize", "colorSetSize"} /\ vars' # vars
       /\ (ev'.width <= 0 \/ ev'.height <= 0)) =>
        /\ sizeVars' = sizeVars
        /\ \A t \in DOMAIN targets' : targets'[t][1] > 0 /\ targets'[t][2] > 0
        /\ \A t \in DOMAIN colorTargets' :
             colorTargets'[t][1] > 0 /\ colorTargets'[t][2] > 0 ]_vars

\* The channel of a texture field in a colours object.
ChannelOf(key) == IF key = "hoverTexture" THEN "hover" ELSE "selected"

\* The step is a setColors call that gives the channel of key a source.
IsSetColorsStep(key) ==
  ev'.op = "setColors" /\ vars' # vars /\ ChannelOf(key) \in DOMAIN ev'.colors

\* C13: after a setColors call that switches a channel from an image or canvas
\* source to a render target, or from a render target to an image or canvas,
\* the channel's texture uniform of the outline material is the render
\* target's texture in the first case and a texture whose image is the image
\* supplied in the second.
C13_SwitchBindsLatestSource ==
  [][ \A key \in TextureKeys :
        (/\ IsSetColorsStep(key)
         /\ isRenderTarget(ev'.colors[ChannelOf(key)]) # isRenderTarget(textureFields[key])) =>
          LET source == ev'.colors[ChannelOf(key)]
              bound == outlineUniforms'[key]
          IN IF isRenderTarget(source)
             THEN bound = textureOf(source)
             ELSE bound.owner = "pass" /\ textureImages'[bound.id] = source ]_vars

\* C14: in every state reached by setColors, setOutputMode, setOptions and
\* render calls in any order, the texture uniform of the current outline
\* material for each channel is the texture the channel's field holds: the
\* field itself when it is a Texture, its .texture when it is a render target.
C14_UniformFollowsField ==
  \A key \in TextureKeys :
    outlineUniforms[key] =
      IF textureFields[key].type = "WebGLRenderTarget"
      THEN [type |-> "Texture", owner |-> "renderTarget", id |-> textureFields[key].id]
      ELSE textureFields[key]

\* The hover channel holds a render target and the selected channel a texture
\* created for an image, on a material rebuilt twice, after an option change
\* and a frame.
C14_Witness ==
  /\ ev.op = "setColors"
  /\ textureFields.hoverTexture.type = "WebGLRenderTarget"
  /\ textureFields.selectedTexture.type = "Texture"
  /\ textureFields.selectedTexture.id > 2
  /\ textureImages[textureFields.selectedTexture.id] # NoImage
  /\ outlineMaterial.id = 3
  /\ options.tileCount = 2
  /\ elapsed = 30

\* The startU uniform <<n, d>> is the number startU + tileCount * (e / interval).
IsScrolledStartU(u, e) ==
  u[1] * options.interval = u[2] * (options.startU * options.interval + options.tileCount * e)

\* C15 as stated: while animateOutline is true, after every render() call, an
\* object highlighted or none, elapsed is (previous elapsed + deltaTime) mod
\* interval and the startU uniform of the current outline material is
\* startU + tileCount * (elapsed / interval).
C15_Original ==
  [][ (IsRenderStep /\ options.animateOutline) =>
        /\ elapsed' = (elapsed + ev'.deltaTime) % options.interval
        /\ IsScrolledStartU(outlineUniforms'.startU, elapsed') ]_vars

\* C15: while animateOutline is true, after every render() call, an object
\* highlighted or none, elapsed is (previous elapsed + deltaTime) mod interval,
\* and after every such call with an object hovered or selected the startU
\* uniform of the current outline material is
\* startU + tileCount * (elapsed / interval).
C15_ElapsedAndScroll ==
  [][ (IsRenderStep /\ options.animateOutline) =>
        /\ elapsed' = (elapsed + ev'.deltaTime) % options.interval
        /\ ev'.active => IsScrolledStartU(outlineUniforms'.startU, elapsed') ]_vars

\* An Active render() has advanced the clock of an animation whose startU,
\* tileCount and interval were all changed: 1 + 2 * (15 / 30) = 2.
C15_Witness ==
  /\ ev.op = "render" /\ ev.active /\ ev.deltaTime = 15
  /\ options.animateOutline
  /\ options.startU = 1 /\ options.tileCount = 2 /\ options.interval = 30
  /\ elapsed = 15
  /\ outlineUniforms.startU = <<2, 1>>

\* C16: in every state reached by setOptions, setOutputMode and render calls
\* in which animateOutline is false, elapsed is 0 and the startU uniform of the
\* current outline material is the configured startU.
C16_DisabledAnimationIsStill ==
  ~options.animateOutline =>
    /\ elapsed = 0
    /\ outlineUniforms.startU = <<options.startU, 1>>

\* C17: in every state reached by render(deltaTime >= 0) and setOptions calls,
\* interval > 0 and 0 <= elapsed < interval.
C17_ElapsedWithinInterval ==
  /\ options.interval > 0
  /\ 0 <= elapsed
  /\ elapsed < options.interval

\* Every outline material but the current one has been disposed once, and the
\* current one never.
ReplacedMaterialsDisposedOnce ==
  \A material \in DOMAIN disposeCalls :
    disposeCalls[material] = IF material = outlineMaterial.id THEN 0 ELSE 1

\* C18: a setOutputMode(A) call that follows a setOutputMode(A) call leaves an
\* outline material with the output mode and the hoverTexture, selectedTexture,
\* tileCount and startU uniforms of the material it replaces, and in every
\* state each replaced outline material has been disposed exactly once and the
\* current one is the only one not disposed.
C18_SetOutputModeTwice ==
  [][ /\ ReplacedMaterialsDisposedOnce'
      /\ (/\ ev.op = "setOutputMode" /\ ev'.op = "setOutputMode"
          /\ ev'.mode = ev.mode /\ vars' # vars) =>
           /\ outlineMaterial'.outputMode = outlineMaterial.outputMode
           /\ outlineMaterial'.id # outlineMaterial.id
           /\ outlineUniforms' = outlineUniforms ]_vars

\* setOutputMode("MaskOnly") has replaced a material built by
\* setOutputMode("MaskOnly"), with startU and tileCount changed from their
\* defaults and the animation under way.
C18_Witness ==
  /\ ev.op = "setOutputMode" /\ ev.mode = "MaskOnly"
  /\ ev.replaced = [id |-> 2, outputMode |-> "MaskOnly"]
  /\ outlineMaterial = [id |-> 3, outputMode |-> "MaskOnly"]
  /\ disposeCalls = <<1, 1, 0>>
  /\ options.startU = 1 /\ options.tileCount = 2
  /\ elapsed = 15
  /\ outlineUniforms.startU = <<1, 1>> /\ outlineUniforms.tileCount = 2

\* C19: after every render() call of AnimatedTextureBlurOutlinePass the
\* camera's layer mask and the scene's override material are what they were
\* before the call, whatever they were.
C19_RenderRestoresCameraAndScene ==
  [][ IsRenderStep =>
        /\ cameraLayers' = cameraLayers
        /\ overrideMaterial' = overrideMaterial ]_vars

\* The clears and draws an Active render() issues before its copy to the
\* display.
OutlineDraws == 1..(DrawsPerRender - 1)

\* C20: when a draw issued inside an Active render() throws, no exception
\* leaves render(), the renderer's autoClear, clear colour and clear alpha, the
\* camera's layer mask and the scene's override material are what they were
\* before the call, and the outline pass has drawn nothing into the read
\* buffer.
C20_FailedDrawIsContained ==
  [][ (IsRenderStep /\ ev'.active /\ ev'.failAt \in OutlineDraws) =>
        /\ ~ev'.exception
        /\ renderer'.autoClear = renderer.autoClear
        /\ renderer'.clearColor = renderer.clearColor
        /\ renderer'.clearAlpha = renderer.clearAlpha
        /\ cameraLayers' = cameraLayers
        /\ overrideMaterial' = overrideMaterial
        /\ \A i \in DOMAIN log' : log'[i].target # "readBuffer" ]_vars

\* C21: a render() call of AnimatedTextureBlurOutlinePass with renderToScreen
\* true ends with one draw to the display, the copy of the read buffer's
\* texture, issued after the outline composite of the frame if there is one,
\* and it is the only draw to the display; with renderToScreen false nothing is
\* drawn to the display, and the composite of an Active frame is in the read
\* buffer.
C21_CopyToScreenEndsFrame ==
  ev.op = "render" =>
    LET toScreen == {i \in DOMAIN log : log[i].target = "screen"}
        composites == {i \in DOMAIN log : log[i].material = "outline"}
    IN /\ IF ev.renderToScreen
          THEN /\ toScreen = {Len(log)}
               /\ log[Len(log)].op = "quad"
               /\ log[Len(log)].material = "copy"
               /\ log[Len(log)].reads = {"readBuffer"}
               /\ \A i \in composites : i < Len(log)
          ELSE toScreen = {}
       /\ ev.active => \E i \in composites : log[i].target = "readBuffer"

\* An Active render() that is the last pass of the composer: twelve clears and
\* draws of the outline, then the copy.
C21_Witness ==
  /\ ev.op = "render" /\ ev.active /\ ev.renderToScreen
  /\ Len(log) = DrawsPerRender
  /\ log[DrawsPerRender - 1].material = "outline"
  /\ log[DrawsPerRender].target = "screen"

\* The clears and draws of an Active render(), in order: the operation, the
\* target written, the material used and the textures sampled.
ActiveSequence ==
  << <<"clear", "mask", "none", {}>>,
     <<"scene", "mask", "hoverMask", {}>>,
     <<"scene", "mask", "selectedMask", {}>>,
     <<"clear", "blurHorizontal", "none", {}>>,
     <<"quad", "blurHorizontal", "blur", {"mask"}>>,
     <<"clear", "blurVertical", "none", {}>>,
     <<"quad", "blurVertical", "blur", {"blurHorizontal"}>>,
     <<"clear", "blurHorizontalHalf", "none", {}>>,
     <<"quad", "blurHorizontalHalf", "blurHalf", {"mask"}>>,
     <<"clear", "blurVerticalHalf2", "none", {}>>,
     <<"quad", "blurVerticalHalf2", "blurHalf", {"blurHorizontalHalf"}>>,
     <<"quad", "readBuffer", "outline", {"mask", "blurVertical", "blurVerticalHalf2"}>> >>

\* C24: the clears and draws of every Active render() of
\* AnimatedTextureBlurOutlinePass are, in this order and all with autoClear
\* false and clear colour black with alpha 0: the mask target cleared; the
\* scene drawn with the hover override material through camera layer 1; the
\* scene drawn with the selected override material through camera layer 2;
\* then, with the camera back on layer 0 and the override material cleared,
\* the full-res horizontal blur of the mask, the full-res vertical blur of the
\* horizontal result, the half-res horizontal blur of the mask, the half-res
\* vertical blur of the half-res horizontal result, each blur target cleared
\* just before it is drawn into; and the composite drawn into the read buffer
\* from the mask and the two vertical blur results.
C24_ActiveRenderOrder ==
  (ev.op = "render" /\ ev.active) =>
    /\ Len(log) \in {Len(ActiveSequence), Len(ActiveSequence) + 1}
    /\ \A i \in DOMAIN ActiveSequence :
         /\ <<log[i].op, log[i].target, log[i].material, log[i].reads>> = ActiveSequence[i]
         /\ ~log[i].autoClear
         /\ log[i].clearColor = 0 /\ log[i].clearAlpha = 0
         /\ i = 2 => log[i].layers = {1}
         /\ i = 3 => log[i].layers = {2}
         /\ i > 3 => log[i].layers = {0}
    /\ \A i \in DOMAIN log : log[i].target # "writeBuffer"
    /\ cameraLayers = {0}
    /\ overrideMaterial = "null"

\* An Active render() on a renderer the host left with autoClear on, a white
\* opaque clear colour, extra camera layers and an override material.
C24_Witness ==
  /\ ev.op = "render" /\ ev.active /\ ~ev.renderToScreen
  /\ Len(log) = Len(ActiveSequence)
  /\ renderer.autoClear /\ renderer.clearColor = White /\ renderer.clearAlpha = 1
  /\ selectedObject # NoObject

\* C30: in the full-res and the half-res blur stage of both outline passes no
\* draw samples the texture of the render target it writes: the vertical pass
\* samples the target the horizontal pass wrote and writes another one.
C30_NoDrawSamplesItsTarget ==
  \A i \in DOMAIN log : log[i].target \notin log[i].reads

\* C26: in every reachable state of SelectedProductHighlighter, an object that
\* has layer 1 or layer 2 enabled implies that isAnyProductHighlighted() is
\* true: with the hovered and the selected reference both unset no object
\* carries a highlight layer bit.
C26_LayerBitImpliesHighlighted ==
  (\E o \in Objects : layers[o] \cap {HoverLayer, SelectedLayer} # {}) =>
    isAnyProductHighlighted

\* C22: a setColors call that gives one channel an image that failed to load
\* (zero natural dimensions) leaves that channel's texture field, its texture
\* uniform and the image of the texture bound before the call unchanged, and
\* leaves the field and the uniform of a channel the call does not name
\* unchanged.
C22_BrokenImageKeepsTexture ==
  [][ \A key \in TextureKeys :
        (IsSetColorsStep(key) /\ ev'.colors[ChannelOf(key)] = BrokenImage) =>
          /\ textureFields'[key] = textureFields[key]
          /\ outlineUniforms'[key] = outlineUniforms[key]
          /\ outlineUniforms[key].owner = "pass" =>
                textureImages'[outlineUniforms[key].id] = textureImages[outlineUniforms[key].id]
          /\ \A other \in TextureKeys \ {key} :
                ChannelOf(other) \notin DOMAIN ev'.colors =>
                  /\ textureFields'[other] = textureFields[other]
                  /\ outlineUniforms'[other] = outlineUniforms[other] ]_vars

\* C23: when CopyShader is undefined at the construction of an outline pass
\* (either implementation), the error is logged and the constructor
\* completes without throwing, and every render() of the pass it leaves draws
\* nothing but the copy of the read buffer.
C23_MissingCopyShaderIsLogged ==
  ~construction.CopyShader =>
    /\ \A pass \in {"pass", "colorPass"} :
         construction[pass] # "new" =>
           construction[pass] = "constructed" /\ construction.consoleErrors > 0
    /\ ev.op = "render" => \A i \in DOMAIN log : log[i].material = "copy"

\* C27: after an AnimatedTextureBlurOutlinePass is constructed with options
\* that give neither edgeThickness nor edgeGlow, the kernelRadius of the
\* full-res blur material is 1 and the kernelRadius of the half-res blur
\* material is strictly larger.
C27_HalfResKernelIsLarger ==
  (/\ ev.op = "construct"
   /\ construction.pass = "constructed"
   /\ DOMAIN ev.options \cap {"edgeThickness", "edgeGlow"} = {}) =>
    /\ kernelRadius.blur = 1
    /\ kernelRadius.blurHalf > kernelRadius.blur

\* C28: setOptions(options) leaves every parameter whose key is absent from
\* options (edgeThickness, edgeGlow, startU, tileCount, animateOutline,
\* interval) at the value it had before the call; setOptions({}) changes no
\* parameter.
C28_AbsentKeysUnchanged ==
  [][ \A o \in EdgeOptions :
        (construction.pass = "constructed" /\ setOptions(o)) =>
          /\ \A key \in {"edgeThickness", "edgeGlow", "startU", "tileCount",
                          "animateOutline"} \ DOMAIN o :
                options'[key] = options[key]
          /\ "animationInterval" \notin DOMAIN o => options'.interval = options.interval ]_vars

\* C29: after construction no setOptions call, whatever edgeThickness or
\* edgeGlow it gives, changes the kernelRadius or the texSize uniform of the
\* full-res or the half-res blur material.
C29_SetOptionsKeepsBlurUniforms ==
  [][ (ev'.op = "setOptions" /\ vars' # vars) =>
        kernelRadius' = kernelRadius /\ texSize' = texSize ]_vars

\* setOptions has stored an edgeThickness and an edgeGlow that differ from
\* the ones the blur materials were built with.
C29_Witness ==
  /\ ev.op = "setOptions"
  /\ options.edgeThickness = 3 /\ options.edgeGlow = 4
  /\ kernelRadius = [blur |-> 1, blurHalf |-> 2]

\* C25: with animateOutline true, interval 60 s, tileCount 2, startU 0 and an
\* object highlighted on every frame, after every render() the startU uniform
\* of the outline material is startU + tileCount * (elapsed / interval); it
\* is 1 after render() calls whose deltaTime values sum to 30 s, and when the
\* sum is 60 s elapsed has wrapped to 0 and the uniform is 0.
C25_ScrollAfterFedTime ==
  ev.op = "render" =>
    /\ IsScrolledStartU(outlineUniforms.startU, elapsed)
    /\ fedTime = 30 => outlineUniforms.startU = Frac(1, 1)
    /\ fedTime = 60 => elapsed = 0 /\ outlineUniforms.startU = Frac(0, 1)

\* The frame times of the frames rendered so far sum to 60 s, the last one
\* being 10 s long.
C25_Witness ==
  /\ ev.op = "render" /\ ev.active /\ ev.deltaTime = 10
  /\ fedTime = 60
  /\ options = [FieldInitialisers EXCEPT !.tileCount = 2, !.edgeGlow = 1]

\* C31: immediately after every setOptions call on a constructed pass that
\* leaves animateOutline false, elapsed is 0 and the startU uniform of the
\* outline material is the configured startU; a setOptions call that leaves
\* animateOutline true does not reset elapsed.
C31_DisablingResetsClock ==
  [][ (ev'.op = "setOptions" /\ vars' # vars) =>
        IF ~options'.animateOutline
        THEN elapsed' = 0 /\ outlineUniforms'.startU = Frac(options'.startU, 1)
        ELSE elapsed' = elapsed ]_vars

\* setOptions has switched the animation off with a startU of 1 on a pass
\* whose interval it changed earlier and whose last frame was Active.
C31_Witness ==
  /\ ev.op = "setOptions"
  /\ ~options.animateOutline
  /\ options.startU = 1 /\ options.interval = 30
  /\ elapsed = 0
  /\ log # <<>>
  /\ outlineUniforms.startU = Frac(1, 1)

\* C32: dispose() of SelectedProductHighlighter cancels all four
\* subscriptions and unsets the hovered and the selected reference, so that
\* isAnyProductHighlighted() is false; from then on every pointer-enter,
\* pointer-leave, select or deselect event leaves it false, reopens no
\* subscription and changes no layer bit.
C32_DisposeSilencesEvents ==
  [][ /\ (ev'.op = "dispose" /\ vars' # vars) =>
          /\ subscriptions' = {}
          /\ hoveredObject' = NoObject /\ selectedObject' = NoObject
          /\ ~isAnyProductHighlighted'
      /\ (ev.op = "dispose" \/ subscriptions = {}) =>
          /\ subscriptions' = {}
          /\ ~isAnyProductHighlighted'
          /\ layers' = layers ]_vars

\* A select event arrives after dispose(), while an object still carries the
\* hover layer and another the selected layer.
C32_Witness ==
  /\ ev.op = "unheard" /\ ev.event = "object3DSelected"
  /\ subscriptions = {}
  /\ hoveredObject = NoObject /\ selectedObject = NoObject
  /\ \E o, q \in Objects : HoverLayer \in layers[o] /\ SelectedLayer \in layers[q]
====
